---------------------------- MODULE Spec2Model ----------------------------
(***************************************************************************)
(* A model of the SLSP analysis session of sLSP4SNFs (main.py).            *)
(*                                                                         *)
(* Units.  Times are whole days (BJD), frequencies whole microhertz,       *)
(* amplitudes whole ppt.  Window lengths are even so that window / 2 is    *)
(* exact.  The Lomb-Scargle engine (lightkurve) is an external library,    *)
(* a function of its input that the model does not know: the first call    *)
(* on an input chooses among the possible outcomes, a failure or a         *)
(* periodogram on a small frequency grid, and later calls on that input    *)
(* repeat it (windowPg, ridgePg).                                          *)
(*                                                                         *)
(* A Python object is modelled by the variables that __init__ always sets  *)
(* plus attrs, the attributes created later: hasattr(self, a) is           *)
(* membership of a in InitAttrs \cup DOMAIN attrs.  A method that raises   *)
(* part-way keeps every assignment made before the raise.                  *)
(***************************************************************************)
EXTENDS Integers, Sequences, FiniteSets, TLC

VARIABLES
    time,        \* self.time, sorted by _sort_time_series
    T,           \* self.T, taken from the input before it is sorted
    window,      \* self.window
    step,        \* self.step
    t0,          \* self.t0
    tf,          \* self.tf
    frequency,   \* self.frequency, the global periodogram's grid
    amplitude,   \* self.amplitude, the global periodogram's amplitudes
    df,          \* self.df: None, or the sliding map's rows
    attrs,       \* the attributes created after __init__
    dataFile,    \* the packaged SNF_simulation_table.csv, if it exists
    nSteps,      \* the local nSteps of the latest compute_slsp that got to it
    logged,      \* the loop steps the latest compute_slsp logged as failed
    last,        \* the latest method call: its name, arguments and exception
    printed,     \* what the latest call wrote to standard output
    calls,       \* how many method calls the session has served
    origin,      \* for each SNF result field, how many later calls have
                 \* assigned result fields that the session still holds
    windowPg,    \* what the engine has returned for each selection of samples
    ridgePg      \* what the engine has returned for each ridge

vars == <<time, T, window, step, t0, tf, frequency, amplitude, df, attrs,
          dataFile, nSteps, logged, last, printed, calls, origin, windowPg,
          ridgePg>>

\* What no method assigns after __init__.
series == <<time, T, t0, tf, frequency, amplitude, dataFile>>

\* ------------------------------------------------------------------ bounds
MaxTime == 5
MaxFreq == 2
MaxCalls == 3

\* ----------------------------------------------------------------- helpers
Range(s) == {s[i] : i \in DOMAIN s}

Abs(x) == IF x < 0 THEN -x ELSE x

RECURSIVE SumSeq(_)
SumSeq(s) == IF s = <<>> THEN 0 ELSE Head(s) + SumSeq(Tail(s))

RECURSIVE Concat(_)
Concat(ss) == IF ss = <<>> THEN <<>> ELSE Head(ss) \o Concat(Tail(ss))

SetMax(S) == CHOOSE m \in S : \A x \in S : x <= m

SetMin(S) == CHOOSE m \in S : \A x \in S : m <= x

\* np.unique: the distinct values, ascending.
RECURSIVE unique(_)
unique(S) ==
    IF S = {} THEN <<>> ELSE <<SetMin(S)>> \o unique(S \ {SetMin(S)})

\* The elements of s at the positions where keep holds, in order (a boolean
\* mask applied to an array).
RECURSIVE Masked(_, _)
Masked(s, keep) ==
    IF s = <<>> THEN <<>>
    ELSE (IF keep[1] THEN <<Head(s)>> ELSE <<>>)
         \o Masked(Tail(s), Tail(keep))

\* np.argsort on distinct or equal keys (stable): the permutation that sorts.
argsort(s) ==
    CHOOSE p \in [DOMAIN s -> DOMAIN s] :
        /\ \A i, j \in DOMAIN s : i # j => p[i] # p[j]
        /\ \A i, j \in DOMAIN s :
              i < j => \/ s[p[i]] < s[p[j]]
                       \/ (s[p[i]] = s[p[j]] /\ p[i] < p[j])

\* ------------------------------------------------------- Python attributes
InitAttrs ==
    {"time", "flux", "T", "window", "step", "corDays", "t0", "tf",
     "frequency", "amplitude", "df", "snfFile", "lc", "pg"}

hasattr(a, name) == name \in InitAttrs \cup DOMAIN a

\* self.<name> = value
setattr(a, name, value) == (name :> value) @@ a

NoAttrs == <<>>

None == [isNone |-> TRUE, rows |-> <<>>]

DataFrame(rows) == [isNone |-> FALSE, rows |-> rows]

NoCall == [op |-> "__init__", args |-> <<>>, exc |-> "none"]

Call(op, args, exc) == [op |-> op, args |-> args, exc |-> exc]

\* ---------------------------------------------------- the external engine
\* A periodogram: rows of (frequency, amplitude) on the grid 1..n.
\* The amplitudes (ppt) the engine may report.
Amps == {1, 2}

PgResults ==
    UNION {{[i \in 1..n |-> [frequency |-> i, amplitude |-> amps[i]]] :
               amps \in [1..n -> Amps]} : n \in 1..MaxFreq}

PgFailure == [ok |-> FALSE, rows |-> <<>>]

\* LightCurve(...).to_periodogram(...): raises, or returns a periodogram.
PgOutcomes == {PgFailure} \cup {[ok |-> TRUE, rows |-> r] : r \in PgResults}

\* ------------------------------------------------------------ construction
\* _sort_time_series
_sort_time_series(timeIn) ==
    LET idx == argsort(timeIn)
        sorted == [i \in DOMAIN timeIn |-> timeIn[idx[i]]]
    IN  [time |-> sorted, t0 |-> sorted[1], tf |-> sorted[Len(sorted)]]

\* The time samples a caller may pass: distinct days, in any order.
TimeInputs ==
    {s \in UNION {[1..n -> 0..MaxTime] : n \in 2..3} :
        \A i, j \in DOMAIN s : i # j => s[i] # s[j]}

Windows == {2, 4}

Steps == {1, 2}

\* __init__(time, flux, window, step); gpg is what _build_global_lsp gets
\* from the engine, file the packaged table.  A session starts with no
\* attribute beyond those of InitAttrs; Holding(a) is the session that has
\* come to hold the attributes a.
Holding(timeIn, w, s, gpg, file, a) ==
    LET sorted == _sort_time_series(timeIn)
    IN  /\ T = timeIn[Len(timeIn)] - timeIn[1]
        /\ window = w
        /\ step = s
        /\ df = None
        /\ time = sorted.time
        /\ t0 = sorted.t0
        /\ tf = sorted.tf
        /\ frequency = [i \in DOMAIN gpg |-> gpg[i].frequency]
        /\ amplitude = [i \in DOMAIN gpg |-> gpg[i].amplitude]
        /\ attrs = a
        /\ dataFile = file
        /\ nSteps = 0
        /\ logged = {}
        /\ last = NoCall
        /\ printed = <<>>
        /\ calls = 0
        /\ origin = NoAttrs
        /\ windowPg = <<>>
        /\ ridgePg = <<>>

Construct(timeIn, w, s, gpg, file) ==
    Holding(timeIn, w, s, gpg, file, NoAttrs)

\* The fields of the SNF result: criterion, then those of StatAttrs.
StatAttrs ==
    {"snfNoise", "snfAmp", "snfSnr", "snfPeriod", "sigmaAmp", "sigmaFreq",
     "sigmaPeriod", "snfState"}

ResultAttrs == {"criterion"} \cup StatAttrs

\* origin after a call that leaves attributes a and assigned those of wrote:
\* 0 for the fields the call assigned, and the other fields keep their
\* order of age, two fields ranking equal exactly when one call assigned
\* both.
Stamp(a, wrote) ==
    LET held == ResultAttrs \cap DOMAIN a
        age == [n \in held |-> IF n \in wrote THEN 0 ELSE origin[n] + 1]
    IN  [n \in held |->
            Cardinality({age[m] : m \in held} \cap 0..(age[n] - 1))]

\* ------------------------------------------------------------ compute_slsp
\* Window i of the loop: its start, end, centre and the samples it selects.
WindowAt(i) ==
    LET t1 == t0 + i * step
        t2 == t1 + window
    IN  [t1 |-> t1, t2 |-> t2, tMid |-> t1 + window \div 2,
         mask |-> [k \in DOMAIN time |-> time[k] >= t1 /\ time[k] < t2]]

\* A loop that also takes the start one step past the last whole window.
StepCountInclusive == (tf - t0 - window) \div step + 1

\* int((tf - t0 - window) // step)
StepCount == (tf - t0 - window) \div step

\* np.any(mask) in iteration i
AnySelected(i) == \E k \in DOMAIN time : WindowAt(i).mask[k]

\* The iterations that reach the engine.
EngineSteps == {i \in 0..(StepCount - 1) : AnySelected(i)}

\* self.time[mask] in iteration i
Selected(i) == Masked(time, WindowAt(i).mask)

\* The rows iteration i appends: none for an empty selection or a failed
\* periodogram, else one row per frequency, all at the window's centre.
WindowRows(i, outcomes) ==
    IF ~AnySelected(i) THEN <<>>
    ELSE IF ~outcomes[i].ok THEN <<>>
    ELSE [k \in DOMAIN outcomes[i].rows |->
             [time |-> WindowAt(i).tMid,
              frequency |-> outcomes[i].rows[k].frequency,
              amplitude |-> outcomes[i].rows[k].amplitude]]

\* The table after the whole loop, outcomes[i] being what the engine does
\* in iteration i.
SlidingRows(outcomes) ==
    Concat([j \in 1..StepCount |-> WindowRows(j - 1, outcomes)])

\* The centre of every window of the loop, whatever became of the window.
AttemptedTimes(rows) ==
    unique({WindowAt(i).tMid : i \in 0..(StepCount - 1)})

\* np.unique(self.df["time"])
ReferTimes(rows) == unique({r.time : r \in Range(rows)})

\* The state a compute_slsp leaves when its loop meets these outcomes.
Computed(outcomes) ==
    LET rows == SlidingRows(outcomes)
    IN  /\ nSteps' = StepCount
        /\ logged' = {i \in EngineSteps : ~outcomes[i].ok}
        /\ df' = DataFrame(rows)
        /\ attrs' = setattr(attrs, "referTimes", ReferTimes(rows))
        /\ origin' = origin
        /\ last' = Call("compute_slsp", <<>>, "none")

compute_slsp ==
    /\ calls < MaxCalls
    /\ calls' = calls + 1
    /\ printed' = <<>>
    /\ UNCHANGED <<series, window, step, ridgePg>>
    /\ IF tf - t0 < window
       THEN /\ last' = Call("compute_slsp", <<>>, "ValueError")
            /\ UNCHANGED <<df, attrs, origin, nSteps, logged, windowPg>>
       ELSE \E fresh \in [{Selected(i) : i \in EngineSteps}
                              \ DOMAIN windowPg -> PgOutcomes] :
               /\ windowPg' = fresh @@ windowPg
               /\ Computed([i \in EngineSteps |-> windowPg'[Selected(i)]])

\* ---------------------------------------------------------- zoom_frequency
\* _check_dependency: does the prerequisite attribute exist?
_check_dependency(a, attr) == hasattr(a, attr)

InBand(f, freq, deltaF) == f >= freq - deltaF /\ f <= freq + deltaF

\* self.df.loc[mask].copy(): the in-band rows, each keeping its row label.
ZoomRows(rows, freq, deltaF) ==
    Masked([i \in DOMAIN rows |->
               [index |-> i, time |-> rows[i].time,
                frequency |-> rows[i].frequency,
                amplitude |-> rows[i].amplitude]],
           [i \in DOMAIN rows |-> InBand(rows[i].frequency, freq, deltaF)])

\* The label of the last row that holds the group's maximum amplitude.
GroupIdxLast(group) ==
    LET top == SetMax({r.amplitude : r \in group})
    IN  SetMax({r.index : r \in {g \in group : g.amplitude = top}})

\* Series.idxmax of one group: the label of the first row, in table order,
\* that holds the group's maximum amplitude.
GroupIdxMax(group) ==
    LET top == SetMax({r.amplitude : r \in group})
    IN  SetMin({r.index : r \in {g \in group : g.amplitude = top}})

\* groupby("time")["amplitude"].idxmax(): one label per group, the groups in
\* ascending key order.
idxmax(zoomRows) ==
    LET keys == unique({r.time : r \in Range(zoomRows)})
    IN  [k \in DOMAIN keys |->
            GroupIdxMax({r \in Range(zoomRows) : r.time = keys[k]})]

BandAttrs == {"targetFreq", "deltaF"}

RidgeAttrs == {"dfZoom", "centerTimes", "centerFreqs"}

\* The whole of zoom_frequency on attributes a: the attributes it leaves,
\* those it assigned and the exception it ends with ("none" when it
\* returns).
zoom_run(a, freq, deltaF) ==
    LET a1 == setattr(setattr(a, "targetFreq", freq), "deltaF", deltaF)
        zoomRows == ZoomRows(df.rows, freq, deltaF)
        a2 == setattr(a1, "dfZoom", zoomRows)
        idx == idxmax(zoomRows)
        a3 == setattr(setattr(a2,
                  "centerTimes", [k \in DOMAIN idx |-> df.rows[idx[k]].time]),
                  "centerFreqs",
                  [k \in DOMAIN idx |-> df.rows[idx[k]].frequency])
        band == {i \in DOMAIN frequency : InBand(frequency[i], freq, deltaF)}
    IN  IF ~_check_dependency(a, "df")
        THEN [attrs |-> a, exc |-> "RuntimeError", wrote |-> {}]
        ELSE IF df.isNone
        THEN [attrs |-> a1, exc |-> "TypeError", wrote |-> BandAttrs]
        ELSE IF band = {}
        THEN [attrs |-> a3, exc |-> "ValueError",
              wrote |-> BandAttrs \cup RidgeAttrs]
        ELSE [attrs |-> setattr(a3, "targetAmp",
                                SetMax({amplitude[i] : i \in band})),
              exc |-> "none",
              wrote |-> BandAttrs \cup RidgeAttrs \cup {"targetAmp"}]

\* The bands a caller may ask for.
Freqs == 1..MaxFreq

DeltaFs == {0, 1}

zoom_frequency ==
    /\ calls < MaxCalls
    /\ calls' = calls + 1
    /\ \E freq \in Freqs, deltaF \in DeltaFs :
          LET r == zoom_run(attrs, freq, deltaF)
          IN  /\ attrs' = r.attrs
              /\ origin' = Stamp(r.attrs, r.wrote)
              /\ last' = Call("zoom_frequency", <<freq, deltaF>>, r.exc)
    /\ printed' = <<>>
    /\ UNCHANGED <<series, window, step, df, nSteps, logged, windowPg,
                   ridgePg>>

\* ------------------------------------------------------------- real numbers
RECURSIVE GCD(_, _)
GCD(a, b) == IF b = 0 THEN a ELSE GCD(b, a % b)

\* A quotient n / d of integers, in lowest terms with d > 0; exact, so that
\* every comparison the code makes on floats is decided without rounding.
Rat(n, d) ==
    LET g == GCD(Abs(n), Abs(d))
        sign == IF d < 0 THEN -1 ELSE 1
    IN  [n |-> sign * (n \div g), d |-> sign * (d \div g)]

FromInt(k) == [n |-> k, d |-> 1]

RatMul(a, b) == Rat(a.n * b.n, a.d * b.d)

RatDiv(a, b) == Rat(a.n * b.d, a.d * b.n)

RatLess(a, b) == a.n * b.d < b.n * a.d

RatLeq(a, b) == a.n * b.d <= b.n * a.d

\* np.sqrt(3) and np.pi, to three digits.
Sqrt3 == [n |-> 173, d |-> 100]

Pi == [n |-> 314, d |-> 100]

\* A float that may be NaN; val is in units of 1e-5 (np.round(..., 5)).
NaN == [nan |-> TRUE, val |-> 0]

Num(v) == [nan |-> FALSE, val |-> v]

\* ---------------------------------------------------------- _load_sim_data
\* The last index of the least distance.
argmin_abs_last(simTime, t) ==
    LET least == SetMin({Abs(simTime[i] - t) : i \in DOMAIN simTime})
    IN  SetMax({i \in DOMAIN simTime : Abs(simTime[i] - t) = least})

\* np.argmin(np.abs(simTime - t)): the first index of the least distance.
argmin_abs(simTime, t) ==
    LET least == SetMin({Abs(simTime[i] - t) : i \in DOMAIN simTime})
    IN  SetMin({i \in DOMAIN simTime : Abs(simTime[i] - t) = least})

\* The matching loop: for each ridge time the simulated frequency (nHz) of
\* the nearest table entry.
match_snfs(simTime, simFreq, centerTimes) ==
    [k \in DOMAIN centerTimes |-> simFreq[argmin_abs(simTime, centerTimes[k])]]

SimAttrs == {"snfSimulateTime", "snfSimulateFreq", "snfs"}

\* The whole of _load_sim_data on attributes a and the data file.
load_run(a, file) ==
    LET simTime == [i \in DOMAIN file.table |-> file.table[i].time]
        simFreq == [i \in DOMAIN file.table |-> file.table[i].freq]
        a1 == setattr(setattr(a, "snfSimulateTime", simTime),
                      "snfSimulateFreq", simFreq)
    IN  IF ~file.exists
        THEN [attrs |-> a, exc |-> "FileNotFoundError", wrote |-> {}]
        ELSE [attrs |-> setattr(a1, "snfs",
                          match_snfs(simTime, simFreq, a.centerTimes)),
              exc |-> "none", wrote |-> SimAttrs]

\* ------------------------------------------------------------- analyze_snf
NHzPerUHz == 1000

Reflection == 2

ResidualNorm == 32

CriterionScale == 100000

\* np.round(num / den, 5) in units of 1e-5, halves to the even neighbour.
round5(num, den) ==
    LET q == (num * CriterionScale) \div den
        r == (num * CriterionScale) % den
    IN  IF 2 * r < den THEN q
        ELSE IF 2 * r > den THEN q + 1
        ELSE IF q % 2 = 0 THEN q ELSE q + 1

\* np.abs((centerFreqs - targetFreq) * 1000.0 - 2.0 * snfs), in nHz.
Residual(a) ==
    [k \in DOMAIN a.centerFreqs |->
        Abs((a.centerFreqs[k] - a.targetFreq) * NHzPerUHz
            - Reflection * a.snfs[k])]

\* np.round(np.nanmean(residual) / 32.0, 5); the mean of nothing is NaN.
Criterion(a) ==
    LET residual == Residual(a)
    IN  IF residual = <<>> THEN NaN
        ELSE Num(round5(SumSeq(residual), Len(residual) * ResidualNorm))

\* What the engine makes of the ridge (remove_nans, remove_outliers,
\* to_periodogram): a failure, or a periodogram of which the code reads the
\* noise floor and the peak (both in units of 0.01 uHz, 0 < noise <= peak,
\* the median of a part never above the maximum) and the peak's period in
\* days.
RidgeFailure == [ok |-> FALSE, snfNoise |-> 1, snfAmp |-> 1, snfPeriod |-> 1]

RidgeOutcomes ==
    {RidgeFailure,
     [ok |-> TRUE, snfNoise |-> 1, snfAmp |-> 3, snfPeriod |-> 372],
     [ok |-> TRUE, snfNoise |-> 1, snfAmp |-> 2, snfPeriod |-> 1]}

\* _estimate_errors
_estimate_errors(a) ==
    LET sigmaAmp == a.snfNoise
        sigmaFreq == RatDiv(RatMul(Sqrt3, FromInt(sigmaAmp)),
                            RatMul(RatMul(FromInt(a.snfAmp), Pi), FromInt(T)))
    IN  setattr(setattr(setattr(a,
            "sigmaAmp", sigmaAmp),
            "sigmaFreq", sigmaFreq),
            "sigmaPeriod",
            RatMul(FromInt(a.snfPeriod * a.snfPeriod), sigmaFreq))

PeriodRef == 372

SigmaFactor == 5

SnrMin == 3

\* 0.01 uHz in units of 0.01 uHz
AmpMin == 1

\* 0.3 in units of 1e-5
CriterionMax == 30000

\* The decision with a signal-to-noise ratio that must exceed SnrMin.
StrictSnrState(a) ==
    LET isPeriodValid ==
            RatLess(FromInt(Abs(a.snfPeriod - PeriodRef)),
                    RatMul(FromInt(SigmaFactor), a.sigmaPeriod))
        isAmpStrong ==
            RatLess(FromInt(SnrMin), a.snfSnr) /\ a.snfAmp > AmpMin
        isTheoryValid ==
            ~a.criterion.nan /\ a.criterion.val <= CriterionMax
    IN  setattr(a, "snfState",
                IF (isPeriodValid /\ isAmpStrong) \/ isTheoryValid
                THEN "Confirmed" ELSE "Rejected")

\* _check_snf_state
_check_snf_state(a) ==
    LET isPeriodValid ==
            RatLess(FromInt(Abs(a.snfPeriod - PeriodRef)),
                    RatMul(FromInt(SigmaFactor), a.sigmaPeriod))
        isAmpStrong ==
            RatLeq(FromInt(SnrMin), a.snfSnr) /\ a.snfAmp > AmpMin
        isTheoryValid ==
            ~a.criterion.nan /\ a.criterion.val <= CriterionMax
    IN  setattr(a, "snfState",
                IF (isPeriodValid /\ isAmpStrong) \/ isTheoryValid
                THEN "Confirmed" ELSE "Rejected")

Banner == <<[banner |-> "rule"], [banner |-> "title"], [banner |-> "rule"]>>

\* _print_summary: the lines written and the exception it ends with.  The
\* message reads self.obj.targetFreq, and obj is an attribute nothing sets.
_print_summary(a) ==
    IF ~hasattr(a, "obj")
    THEN [printed |-> Banner, exc |-> "AttributeError"]
    ELSE [printed |-> Banner \o
                      <<[verdict |-> IF a.snfState = "Confirmed"
                                     THEN "SUCCESS" ELSE "REJECTED",
                         targetFreq |-> a.obj.targetFreq],
                        [banner |-> "rule"]>>,
          exc |-> "none"]

\* analyze_snf from the point where its zoom_frequency call has ended as z
\* (attributes, exception); outcome is what the engine makes of the ridge,
\* if the call gets to it.
analyze_run(a, z, outcome) ==
    LET l == load_run(z.attrs, dataFile)
        a1 == setattr(l.attrs, "criterion", Criterion(l.attrs))
        a2 == setattr(setattr(a1, "snfNoise", outcome.snfNoise),
                      "snfAmp", outcome.snfAmp)
        a3 == setattr(setattr(a2,
                  "snfSnr", Rat(outcome.snfAmp, outcome.snfNoise)),
                  "snfPeriod", outcome.snfPeriod)
        a4 == _check_snf_state(_estimate_errors(a3))
        p == _print_summary(a4)
    IN  IF ~_check_dependency(a, "df")
        THEN [attrs |-> a, exc |-> "RuntimeError", printed |-> <<>>,
              wrote |-> {}]
        ELSE IF z.exc # "none"
        THEN [attrs |-> z.attrs, exc |-> z.exc, printed |-> <<>>,
              wrote |-> z.wrote]
        ELSE IF l.exc # "none"
        THEN [attrs |-> l.attrs, exc |-> l.exc, printed |-> <<>>,
              wrote |-> z.wrote]
        ELSE IF ~outcome.ok
        THEN [attrs |-> a1, exc |-> "EngineError", printed |-> <<>>,
              wrote |-> z.wrote \cup l.wrote \cup {"criterion"}]
        ELSE [attrs |-> a4, exc |-> p.exc, printed |-> p.printed,
              wrote |-> z.wrote \cup l.wrote \cup {"criterion"}
                        \cup StatAttrs]

\* What the engine may make of ridge key: what it made of it before, if it
\* has seen it.
RidgeOutcomesFor(key) ==
    IF key \in DOMAIN ridgePg THEN {ridgePg[key]} ELSE RidgeOutcomes

analyze_snf ==
    /\ calls < MaxCalls
    /\ calls' = calls + 1
    /\ \E freq \in Freqs, deltaF \in DeltaFs :
          LET z == zoom_run(attrs, freq, deltaF)
              reaches == analyze_run(attrs, z, RidgeFailure).exc
                             = "EngineError"
              key == <<z.attrs.centerTimes, z.attrs.centerFreqs>>
          IN  \E outcome \in IF reaches THEN RidgeOutcomesFor(key)
                             ELSE {RidgeFailure} :
                 LET r == analyze_run(attrs, z, outcome)
                 IN  /\ attrs' = r.attrs
                     /\ origin' = Stamp(r.attrs, r.wrote)
                     /\ last' = Call("analyze_snf", <<freq, deltaF>>, r.exc)
                     /\ printed' = r.printed
                     /\ ridgePg' = IF reaches THEN (key :> outcome) @@ ridgePg
                                   ELSE ridgePg
    /\ UNCHANGED <<series, window, step, df, nSteps, logged, windowPg>>

\* ------------------------------------------------------- window and step
\* self.window and self.step are plain attributes: a caller may assign them
\* between calls.
set_window_step ==
    /\ \E w \in Windows, s \in Steps :
          /\ <<w, s>> # <<window, step>>
          /\ window' = w
          /\ step' = s
    /\ UNCHANGED <<series, df, attrs, nSteps, logged, last, printed, calls,
                   origin, windowPg, ridgePg>>

\* ------------------------------------------------------------ the session
\* The packaged table, when the distribution has it: the simulated Nyquist
\* frequency (nHz) at each simulated time.
SimTable ==
    <<[time |-> 0, freq |-> 0], [time |-> 2, freq |-> 500],
      [time |-> 4, freq |-> 498]>>

NoFile == [exists |-> FALSE, table |-> <<>>]

DataFiles == {NoFile, [exists |-> TRUE, table |-> SimTable]}

\* The global periodograms of the sessions: a narrow and a full grid.
GlobalPgs == {r \in PgResults : \A i \in DOMAIN r : r[i].amplitude = i}

NarrowPg == <<[frequency |-> 1, amplitude |-> 1]>>

\* A session on a series with one window of samples at most; every method
\* in any order, MaxCalls calls in all.
SessionInputs == {<<0, 2, 3>>}

Init ==
    \E timeIn \in SessionInputs, w \in Windows, s \in Steps,
       gpg \in GlobalPgs, file \in DataFiles :
        Construct(timeIn, w, s, gpg, file)

Next == compute_slsp \/ zoom_frequency \/ analyze_snf

Spec == Init /\ [][Next]_vars

\* The sliding decomposition alone, on every series, window and step.
InitSliding ==
    \E timeIn \in TimeInputs, w \in Windows, s \in Steps :
        Construct(timeIn, w, s, NarrowPg, NoFile)

NextSliding == compute_slsp

SpecSliding == InitSliding /\ [][NextSliding]_vars

\* Ridge extraction on the sliding maps of a series with two windows.
RidgeInputs == {<<0, 2, 4>>}

InitRidge ==
    \E timeIn \in RidgeInputs, gpg \in GlobalPgs :
        Construct(timeIn, 2, 1, gpg, NoFile)

NextRidge == compute_slsp \/ zoom_frequency

SpecRidge == InitRidge /\ [][NextRidge]_vars

\* A session in which window and step are reassigned between calls.
NextRerun == compute_slsp \/ zoom_frequency \/ set_window_step

SpecRerun == Init /\ [][NextRerun]_vars

\* Reference matching alone (_load_sim_data), on drawn ridge times and
\* tables: simulated times in any order, the entry at index i holding the
\* frequency 100 * i.
MatchTimes == {0, 10, 20}

MatchTables ==
    {[i \in DOMAIN ts |-> [time |-> ts[i], freq |-> 100 * i]] :
        ts \in UNION {[1..n -> MatchTimes] : n \in 1..3}}

MatchQueries == {5, 14, 15}

\* Ridge times ascend (zoom_frequency lists the groups in key order).
MatchRidges ==
    {<<>>} \cup {<<t>> : t \in MatchQueries}
    \cup {<<t, u>> : t, u \in MatchQueries}

InitMatch ==
    \E table \in MatchTables, centerTimes \in MatchRidges :
        /\ \A k \in 1..(Len(centerTimes) - 1) :
              centerTimes[k] < centerTimes[k + 1]
        /\ Holding(<<0, 2, 3>>, 2, 1, NarrowPg,
                   [exists |-> TRUE, table |-> table],
                   setattr(NoAttrs, "centerTimes", centerTimes))

_load_sim_data ==
    /\ ~hasattr(attrs, "snfs")
    /\ LET l == load_run(attrs, dataFile)
       IN  /\ attrs' = l.attrs
           /\ last' = Call("_load_sim_data", <<>>, l.exc)
    /\ UNCHANGED <<series, window, step, df, nSteps, logged, printed, calls,
                   origin, windowPg, ridgePg>>

SpecMatch == InitMatch /\ [][_load_sim_data]_vars

\* The decision alone (_check_snf_state), on drawn statistics around each
\* threshold.
DecisionPeriods == {362, 372, 382}

DecisionSigmas ==
    {Rat(-1, 1), Rat(0, 1), Rat(1, 2), Rat(2, 1), Rat(3, 1)}

DecisionSnrs == {Rat(299, 100), Rat(3, 1), Rat(301, 100)}

DecisionAmps == {0, 1, 2}

DecisionCriteria == {NaN, Num(29999), Num(30000), Num(30001)}

InitDecision ==
    \E p \in DecisionPeriods, sigma \in DecisionSigmas,
       snr \in DecisionSnrs, amp \in DecisionAmps,
       c \in DecisionCriteria :
        Holding(<<0, 2, 3>>, 2, 1, NarrowPg, NoFile,
                [snfPeriod |-> p, sigmaPeriod |-> sigma, snfSnr |-> snr,
                 snfAmp |-> amp, criterion |-> c])

check_snf_state ==
    /\ ~hasattr(attrs, "snfState")
    /\ attrs' = _check_snf_state(attrs)
    /\ last' = Call("_check_snf_state", <<>>, "none")
    /\ UNCHANGED <<series, window, step, df, nSteps, logged, printed, calls,
                   origin, windowPg, ridgePg>>

SpecDecision == InitDecision /\ [][check_snf_state]_vars

\* The error estimate alone (_estimate_errors), on every series a caller may
\* pass and drawn statistics of the ridge periodogram.
ErrorAmps == {2, 3}

ErrorPeriods == {1, 372}

InitErrors ==
    \E timeIn \in TimeInputs, amp \in ErrorAmps, p \in ErrorPeriods :
        Holding(timeIn, 2, 1, NarrowPg, NoFile,
                [snfNoise |-> 1, snfAmp |-> amp, snfPeriod |-> p])

estimate_errors ==
    /\ ~hasattr(attrs, "sigmaFreq")
    /\ attrs' = _estimate_errors(attrs)
    /\ last' = Call("_estimate_errors", <<>>, "none")
    /\ UNCHANGED <<series, window, step, df, nSteps, logged, printed, calls,
                   origin, windowPg, ridgePg>>

SpecErrors == InitErrors /\ [][estimate_errors]_vars

\* ================================================================ properties
\* C1: on a freshly constructed session, on which compute_slsp has never
\* run, zoom_frequency and analyze_snf end with the RuntimeError of
\* _check_dependency and with no other failure.
C1_PrerequisiteError ==
    (calls = 1 /\ last.op \in {"zoom_frequency", "analyze_snf"})
        => last.exc = "RuntimeError"

\* C2: a compute_slsp with window = step = tf - t0, none of whose
\* periodograms failed, leaves exactly one window block: referTimes holds
\* exactly one centre time.
C2_SingleBlock ==
    (/\ last = Call("compute_slsp", <<>>, "none")
     /\ window = step
     /\ window = tf - t0
     /\ logged = {})
        => Len(attrs.referTimes) = 1

\* C3: an analyze_snf whose zoom (with a ridge that is not empty),
\* reference matching and ridge periodogram all succeeded returns without raising, leaves snfState Confirmed or
\* Rejected, and has printed a line that says SUCCESS for Confirmed and
\* REJECTED otherwise and names the target frequency of the call.
C3_SummaryEmitted ==
    (/\ last.op = "analyze_snf"
     /\ last.exc \notin {"RuntimeError", "TypeError", "ValueError",
                         "FileNotFoundError", "EngineError"}
     /\ attrs.centerTimes # <<>>)
        => /\ last.exc = "none"
           /\ attrs.snfState \in {"Confirmed", "Rejected"}
           /\ \E k \in DOMAIN printed :
                 printed[k] = [verdict |-> IF attrs.snfState = "Confirmed"
                                           THEN "SUCCESS" ELSE "REJECTED",
                               targetFreq |-> last.args[1]]

\* C4: the decision sets snfState to Confirmed exactly when
\* (|snfPeriod - 372| < 5 * sigmaPeriod and snfSnr >= 3 and snfAmp > 0.01)
\* or criterion <= 0.3 (false for a NaN criterion), and to Rejected
\* otherwise; with snfAmp > 0.01 the amplitude test fails just below
\* snfSnr = 3 and passes from 3 on.
C4_Decision ==
    last.op = "_check_snf_state" =>
        LET sigma == attrs.sigmaPeriod
            snr == attrs.snfSnr
            periodValid ==
                IF attrs.snfPeriod >= 372
                THEN (attrs.snfPeriod - 372) * sigma.d < 5 * sigma.n
                ELSE (372 - attrs.snfPeriod) * sigma.d < 5 * sigma.n
            ampStrong == snr.n >= 3 * snr.d /\ attrs.snfAmp > 1
            theoryValid ==
                ~attrs.criterion.nan /\ attrs.criterion.val <= 30000
        IN  /\ attrs.snfState \in {"Confirmed", "Rejected"}
            /\ attrs.snfState = "Confirmed"
                   <=> ((periodValid /\ ampStrong) \/ theoryValid)
            /\ (attrs.snfAmp > 1 /\ periodValid /\ ~theoryValid)
                   => (attrs.snfState = "Confirmed" <=> snr.n >= 3 * snr.d)

\* The decision at the threshold: a ratio of exactly 3 with a strong
\* amplitude and a valid period confirms a candidate the theory rejects.
C4_AtThreshold ==
    /\ last.op = "_check_snf_state"
    /\ attrs.snfSnr = [n |-> 3, d |-> 1]
    /\ attrs.snfAmp = 2
    /\ attrs.snfPeriod = 382
    /\ attrs.sigmaPeriod = [n |-> 3, d |-> 1]
    /\ attrs.criterion = [nan |-> FALSE, val |-> 30001]
    /\ attrs.snfState = "Confirmed"

\* C5: a zoom_frequency that returns leaves a ridge with exactly one
\* (time, frequency) entry for each centre time that has a row in the band
\* [targetFreq - deltaF, targetFreq + deltaF] (bounds included), in
\* ascending time order; the entry's frequency is that of an in-band row of
\* its window of maximum amplitude, the first such row in table order.
C5_RidgeExtraction ==
    (last.op = "zoom_frequency" /\ last.exc = "none") =>
        LET rows == df.rows
            ct == attrs.centerTimes
            cf == attrs.centerFreqs
            inBand == {i \in DOMAIN rows :
                          /\ rows[i].frequency >= last.args[1] - last.args[2]
                          /\ rows[i].frequency <= last.args[1] + last.args[2]}
            of(t) == {i \in inBand : rows[i].time = t}
        IN  /\ Len(cf) = Len(ct)
            /\ {ct[k] : k \in DOMAIN ct} = {rows[i].time : i \in inBand}
            /\ \A k \in 1..(Len(ct) - 1) : ct[k] < ct[k + 1]
            /\ \A k \in DOMAIN ct :
                  \E i \in of(ct[k]) :
                     /\ cf[k] = rows[i].frequency
                     /\ \A j \in of(ct[k]) :
                           /\ rows[j].amplitude <= rows[i].amplitude
                           /\ j < i => rows[j].amplitude < rows[i].amplitude

\* A ridge through two windows, in one of which two in-band rows share the
\* maximum and the ridge holds the frequency of the first.
C5_TieInWindow ==
    /\ last.op = "zoom_frequency"
    /\ last.exc = "none"
    /\ Len(attrs.centerTimes) = 2
    /\ \E i, j \in DOMAIN df.rows, k \in DOMAIN attrs.centerTimes :
          /\ i < j
          /\ df.rows[i].time = attrs.centerTimes[k]
          /\ df.rows[j].time = attrs.centerTimes[k]
          /\ df.rows[i].amplitude = df.rows[j].amplitude
          /\ df.rows[i].frequency # df.rows[j].frequency
          /\ \A m \in {i, j} :
                /\ df.rows[m].frequency >= last.args[1] - last.args[2]
                /\ df.rows[m].frequency <= last.args[1] + last.args[2]
          /\ attrs.centerFreqs[k] = df.rows[i].frequency

\* C6: a zoom_frequency on a table none of whose rows has its frequency in
\* [targetFreq - deltaF, targetFreq + deltaF] ends with an error, whatever
\* the global periodogram holds in that band; it never returns.
C6_NoDataInBand ==
    (/\ last.op = "zoom_frequency"
     /\ ~df.isNone
     /\ \A i \in DOMAIN df.rows :
           \/ df.rows[i].frequency < last.args[1] - last.args[2]
           \/ df.rows[i].frequency > last.args[1] + last.args[2])
        => last.exc # "none"

\* C7: after compute_slsp every row's centre time is t0 + i * step +
\* window / 2 for some i >= 0 with t0 + i * step + window <= tf, the centre
\* times never decrease along the table, and the number of window starts
\* tried is floor((tf - t0 - window) / step).
C7_WindowCentres ==
    last = Call("compute_slsp", <<>>, "none") =>
        /\ nSteps * step <= tf - t0 - window
        /\ tf - t0 - window < (nSteps + 1) * step
        /\ \A k \in DOMAIN df.rows :
              \E i \in 0..(tf - t0) :
                 /\ 2 * df.rows[k].time = 2 * (t0 + i * step) + window
                 /\ t0 + i * step + window <= tf
        /\ \A k \in 1..(Len(df.rows) - 1) :
              df.rows[k].time <= df.rows[k + 1].time

\* A table of two blocks on a series that starts after day 0.
C7_TwoBlocks ==
    /\ last = Call("compute_slsp", <<>>, "none")
    /\ t0 > 0
    /\ nSteps = 2
    /\ Cardinality({df.rows[k].time : k \in DOMAIN df.rows}) = 2

\* C8: compute_slsp on a series at least as long as the window raises
\* nothing, whatever windows are empty or fail in the engine; a window that
\* selects no sample or whose periodogram fails contributes no row, every
\* other window contributes exactly the rows of its periodogram, and
\* referTimes lists the distinct centre times of those windows.
C8_SkippedWindows ==
    last.op = "compute_slsp" =>
        /\ tf - t0 >= window => last.exc = "none"
        /\ last.exc = "none" =>
              LET starts == 0..(nSteps - 1)
                  chosen(i) ==
                      SelectSeq(time, LAMBDA t : /\ t >= t0 + i * step
                                                 /\ t < t0 + i * step + window)
                  failed == {i \in starts : /\ chosen(i) # <<>>
                                            /\ ~windowPg[chosen(i)].ok}
                  kept == {i \in starts : chosen(i) # <<>>} \ failed
                  centre2(i) == 2 * (t0 + i * step) + window
                  block(i) ==
                      SelectSeq(df.rows, LAMBDA r : 2 * r.time = centre2(i))
                  refer == attrs.referTimes
              IN  /\ logged = failed
                  /\ \A k \in DOMAIN df.rows :
                        \E i \in kept : 2 * df.rows[k].time = centre2(i)
                  /\ \A i \in kept :
                        /\ Len(block(i)) = Len(windowPg[chosen(i)].rows)
                        /\ \A k \in DOMAIN block(i) :
                              /\ block(i)[k].frequency
                                     = windowPg[chosen(i)].rows[k].frequency
                              /\ block(i)[k].amplitude
                                     = windowPg[chosen(i)].rows[k].amplitude
                  /\ {2 * refer[k] : k \in DOMAIN refer}
                         = {centre2(i) : i \in kept}
                  /\ \A k \in 1..(Len(refer) - 1) : refer[k] < refer[k + 1]

\* A decomposition with an empty window, a failed window and a window that
\* gave its rows.
C8_EmptyFailedKept ==
    /\ last = Call("compute_slsp", <<>>, "none")
    /\ logged # {}
    /\ \E i \in 0..(nSteps - 1) :
          \A k \in DOMAIN time :
             time[k] < t0 + i * step \/ time[k] >= t0 + i * step + window
    /\ df.rows # <<>>

\* C9: _load_sim_data gives, for each ridge time in order, the simulated
\* frequency of the table entry nearest in time, the entry of smallest
\* index among equally near ones; the result is as long as the ridge.
C9_NearestReference ==
    (last.op = "_load_sim_data" /\ last.exc = "none") =>
        LET ct == attrs.centerTimes
            table == dataFile.table
            dist(i, t) == IF table[i].time >= t THEN table[i].time - t
                          ELSE t - table[i].time
        IN  /\ Len(attrs.snfs) = Len(ct)
            /\ \A k \in DOMAIN ct :
                  \E i \in DOMAIN table :
                     /\ attrs.snfs[k] = table[i].freq
                     /\ \A j \in DOMAIN table :
                           /\ dist(i, ct[k]) <= dist(j, ct[k])
                           /\ j < i => dist(i, ct[k]) < dist(j, ct[k])

\* Table times 0, 10, 20: day 5, as near to 0 as to 10, takes the entry of
\* day 0, and day 14 the entry of day 10.
C9_TieAndNearest ==
    /\ last.op = "_load_sim_data"
    /\ last.exc = "none"
    /\ dataFile.table = <<[time |-> 0, freq |-> 100],
                          [time |-> 10, freq |-> 200],
                          [time |-> 20, freq |-> 300]>>
    /\ attrs.centerTimes = <<5, 14>>
    /\ attrs.snfs = <<100, 200>>

\* C10: the SNF result fields a session holds (criterion, snfNoise, snfAmp,
\* snfSnr, snfPeriod, sigmaAmp, sigmaFreq, sigmaPeriod, snfState) were all
\* assigned by one and the same call.
C10_OneCallBundle ==
    \A n, m \in DOMAIN origin : origin[n] = origin[m]

\* C11: whenever the ridge (centerTimes, centerFreqs), the zoomed table and
\* targetAmp are all readable, they are what zoom_frequency yields from the
\* session's current table and its current targetFreq and deltaF.
C11_RidgeCurrent ==
    {"dfZoom", "centerTimes", "centerFreqs", "targetAmp"} \subseteq DOMAIN attrs
        => /\ ~df.isNone
           /\ LET z == zoom_run(attrs, attrs.targetFreq, attrs.deltaF)
              IN  /\ z.exc = "none"
                  /\ attrs.dfZoom = z.attrs.dfZoom
                  /\ attrs.centerTimes = z.attrs.centerTimes
                  /\ attrs.centerFreqs = z.attrs.centerFreqs
                  /\ attrs.targetAmp = z.attrs.targetAmp

\* C12: whatever the order of the time samples given at construction, the T
\* that _estimate_errors divides by is the span tf - t0 of the sorted series
\* (the span compute_slsp compares with window), hence not negative, and
\* sigmaFreq is positive for positive amplitudes.
C12_SpanOfSeries ==
    last.op = "_estimate_errors" =>
        /\ T = tf - t0
        /\ T >= 0
        /\ attrs.sigmaFreq.n > 0
=============================================================================
